---- MODULE Spec2Model ----
(***************************************************************************)
(* Model of raster_utils.dsm_to_dtm_metric (rasterDSM2DTM): the DSM -> DTM *)
(* -> CHM pipeline.  Window sizing, the memory guard, the nodata-imputing  *)
(* grey opening, the two raster writes and the returned metadata.          *)
(*                                                                         *)
(* Elevations are exact rationals <<numerator, denominator>>; NaN is the   *)
(* pair <<0, 0>>.  Source samples are drawn from values that float32       *)
(* holds exactly, so astype('float32') keeps them.                         *)
(***************************************************************************)
EXTENDS Integers, Sequences, FiniteSets, TLC

(***************************************************************************)
(* Bounds of the model.                                                    *)
(***************************************************************************)
MaxH == 2
MaxW == 3
MaxVal == 1
MaxDim == 4
MaxRes == 2
MaxRadius == 4
MaxBudget == 4
MaxCells == 5
MaxOpenVal == 2
MaxHoles == 1
MaxBumpDim == 4
MaxBump == 2

(***************************************************************************)
(* Program constants.                                                      *)
(***************************************************************************)
DefaultNodata == 0 - 9999
DefaultMaxPixels == 15000000

(***************************************************************************)
(* Rational arithmetic with NaN (IEEE comparisons with NaN are false).     *)
(***************************************************************************)
NaN == <<0, 0>>
IsNaN(a) == a[2] = 0
Abs(n) == IF n < 0 THEN 0 - n ELSE n

RECURSIVE Gcd(_, _)
Gcd(a, b) == IF b = 0 THEN a ELSE Gcd(b, a % b)

Rat(n, d) ==
    IF d = 0 THEN NaN
    ELSE LET g == Gcd(Abs(n), Abs(d))
             s == IF d < 0 THEN 0 - 1 ELSE 1
         IN  <<(s * n) \div g, (s * d) \div g>>

Num(k) == <<k, 1>>
REq(a, b) == ~IsNaN(a) /\ ~IsNaN(b) /\ a[1] * b[2] = b[1] * a[2]
RLt(a, b) == ~IsNaN(a) /\ ~IsNaN(b) /\ a[1] * b[2] < b[1] * a[2]
RLe(a, b) == ~IsNaN(a) /\ ~IsNaN(b) /\ a[1] * b[2] <= b[1] * a[2]
RGe(a, b) == RLe(b, a)
RAdd(a, b) ==
    IF IsNaN(a) \/ IsNaN(b) THEN NaN
    ELSE Rat(a[1] * b[2] + b[1] * a[2], a[2] * b[2])
RSub(a, b) ==
    IF IsNaN(a) \/ IsNaN(b) THEN NaN
    ELSE Rat(a[1] * b[2] - b[1] * a[2], a[2] * b[2])
RScale(k, a) == IF IsNaN(a) THEN NaN ELSE Rat(k * a[1], a[2])
RDivInt(a, k) == IF IsNaN(a) THEN NaN ELSE Rat(a[1], a[2] * k)

(***************************************************************************)
(* Grids: a sequence of rows, each a sequence of samples.                  *)
(***************************************************************************)
Rows(g) == Len(g)
Cols(g) == IF Len(g) = 0 THEN 0 ELSE Len(g[1])
Shape(g) == <<Rows(g), Cols(g)>>

\* A function over 1..n written out as a tuple, each element computed once.
RECURSIVE AsTuple(_, _)
AsTuple(f, n) == IF n = 0 THEN <<>> ELSE Append(AsTuple(f, n - 1), f[n])

RECURSIVE AsRows(_, _, _)
AsRows(g, h, w) == IF h = 0 THEN <<>> ELSE Append(AsRows(g, h - 1, w), AsTuple(g[h], w))

RECURSIVE Flat(_)
Flat(g) == IF g = <<>> THEN <<>> ELSE Head(g) \o Flat(Tail(g))

ConstGrid(h, w, v) == AsRows([r \in 1..h |-> [c \in 1..w |-> v]], h, w)

(***************************************************************************)
(* Window Sizer (raster_utils.py 40-46).  search_radius_meters and res_x   *)
(* are counted in a common length unit; math.ceil of their quotient.       *)
(***************************************************************************)
CeilDiv(a, b) == 0 - ((0 - a) \div b)

\* Mutant: the parity correction of lines 45-46 left out.
WindowPixels_NoOddForcing(search_radius_meters, res_x) ==
    CeilDiv(search_radius_meters, res_x)

WindowPixels(search_radius_meters, res_x) ==
    LET pixels == CeilDiv(search_radius_meters, res_x)
    IN  IF pixels % 2 = 0 THEN pixels + 1 ELSE pixels

(***************************************************************************)
(* Memory guard (raster_utils.py 48-53).                                   *)
(* math.ceil(math.sqrt(total_pixels / max_pixels)): the least f with       *)
(* f * f * max_pixels >= total_pixels, found by counting up from 1.        *)
(***************************************************************************)
RECURSIVE CeilSqrtFrom(_, _, _)
CeilSqrtFrom(f, total_pixels, max_pixels) ==
    IF f * f * max_pixels >= total_pixels THEN f
    ELSE CeilSqrtFrom(f + 1, total_pixels, max_pixels)

NeedsDownsample(total_pixels, max_pixels) == total_pixels > max_pixels

DownsampleFactor(total_pixels, max_pixels) ==
    IF NeedsDownsample(total_pixels, max_pixels)
    THEN CeilSqrtFrom(1, total_pixels, max_pixels)
    ELSE 1

\* Mutant: the reduced shape rounded up instead of truncated.
OutShape_RoundedUp(height, width, factor) ==
    <<CeilDiv(height, factor), CeilDiv(width, factor)>>

OutShape(height, width, factor) == <<height \div factor, width \div factor>>

(***************************************************************************)
(* src.read(1, out_shape, resampling=average) (raster_utils.py 55-59):     *)
(* every output cell is the area-weighted mean of the source cells its     *)
(* footprint overlaps.  Cells the dataset's mask marks nodata (only when   *)
(* the dataset declares a nodata value) take no part; a footprint with no  *)
(* unmasked cell reads as the nodata value.                                *)
(***************************************************************************)
Min2(a, b) == IF a < b THEN a ELSE b
Max2(a, b) == IF a > b THEN a ELSE b

Overlap(k, n_src, i, n_out) ==
    Max2(0, Min2(k * n_out, i * n_src) - Max2((k - 1) * n_out, (i - 1) * n_src))

AverageCell(data, i, j, oh, ow, masked, nd) ==
    LET h == Rows(data)
        w == Cols(data)
        cells == {rc \in (1..h) \X (1..w) :
                     /\ Overlap(rc[1], h, i, oh) > 0
                     /\ Overlap(rc[2], w, j, ow) > 0
                     /\ ~(masked /\ REq(data[rc[1]][rc[2]], nd))}
        Wt(rc) == Overlap(rc[1], h, i, oh) * Overlap(rc[2], w, j, ow)
        RECURSIVE Acc(_)
        Acc(S) == IF S = {} THEN <<Num(0), 0>>
                  ELSE LET rc == CHOOSE x \in S : TRUE
                           rest == Acc(S \ {rc})
                       IN  <<RAdd(rest[1], RScale(Wt(rc), data[rc[1]][rc[2]])),
                             rest[2] + Wt(rc)>>
        tot == Acc(cells)
    IN  IF cells = {} THEN nd ELSE RDivInt(tot[1], tot[2])

AverageRead(data, oh, ow, masked, nd) ==
    AsRows([i \in 1..oh |-> [j \in 1..ow |->
               AverageCell(data, i, j, oh, ow, masked, nd)]], oh, ow)

(***************************************************************************)
(* np.nanmedian (raster_utils.py 73): the median of every cell that is not *)
(* NaN -- cells holding the nodata value are counted like any other; NaN   *)
(* when there is no such cell.                                             *)
(***************************************************************************)
KthSmallest(vals, k) ==
    LET idx == CHOOSE i \in 1..Len(vals) :
                  /\ Cardinality({j \in 1..Len(vals) : RLt(vals[j], vals[i])}) < k
                  /\ Cardinality({j \in 1..Len(vals) : RLe(vals[j], vals[i])}) >= k
    IN  vals[idx]

NanMedian(g) ==
    LET vals == SelectSeq(Flat(g), LAMBDA v : ~IsNaN(v))
        n == Len(vals)
    IN  IF n = 0 THEN NaN
        ELSE IF n % 2 = 1 THEN KthSmallest(vals, (n + 1) \div 2)
        ELSE RDivInt(RAdd(KthSmallest(vals, n \div 2),
                          KthSmallest(vals, (n \div 2) + 1)), 2)

(***************************************************************************)
(* scipy.ndimage.grey_opening(dsm_temp, size=(w, w)) (raster_utils.py 77): *)
(* grey erosion then grey dilation, each a running minimum / maximum of    *)
(* width w along axis 0 and then along axis 1, the array extended by       *)
(* reflection about its edges (mode='reflect': d c b a | a b c d | d c b a)*)
(* The running extremum keeps a queue of <<value, death>> candidates and   *)
(* decides with <= and >=, which are false on NaN: a NaN is never chosen   *)
(* over the head, is never dropped by a later value, and is written out    *)
(* once it becomes the head.  An axis whose size is not above 1 is copied. *)
(***************************************************************************)
ReflectIndex(i, n) ==
    LET m == i % (2 * n)
    IN  IF m < n THEN m + 1 ELSE 2 * n - m

ExtendLine(line, w) ==
    AsTuple([p \in 1..(Len(line) + w - 1) |->
                line[ReflectIndex(p - 1 - (w \div 2), Len(line))]],
            Len(line) + w - 1)

Beats(minimum, a, b) == IF minimum THEN RLe(a, b) ELSE RGe(a, b)

RECURSIVE DropBack(_, _, _)
DropBack(ring, minimum, val) ==
    IF Len(ring) > 0 /\ Beats(~minimum, ring[Len(ring)][1], val)
    THEN DropBack(SubSeq(ring, 1, Len(ring) - 1), minimum, val)
    ELSE ring

RECURSIVE RingScan(_, _, _, _, _, _)
RingScan(buf, w, minimum, ll, ring, out) ==
    IF ll > Len(buf) - 1 THEN out
    ELSE LET val == buf[ll + 1]
             alive == IF ring[1][2] = ll THEN Tail(ring) ELSE ring
             next == IF Beats(minimum, val, alive[1][1])
                     THEN << <<val, ll + w>> >>
                     ELSE Append(DropBack(alive, minimum, val), <<val, ll + w>>)
             out2 == IF ll >= w - 1 THEN Append(out, next[1][1]) ELSE out
         IN  RingScan(buf, w, minimum, ll + 1, next, out2)

MinOrMaxFilter1D(line, w, minimum) ==
    IF w <= 1 THEN line
    ELSE LET buf == ExtendLine(line, w)
         IN  RingScan(buf, w, minimum, 1, << <<buf[1], w>> >>, <<>>)

Transpose(g) ==
    AsRows([c \in 1..Cols(g) |-> [r \in 1..Rows(g) |-> g[r][c]]], Cols(g), Rows(g))

FilterRows(g, w, minimum) ==
    AsTuple([r \in 1..Rows(g) |-> MinOrMaxFilter1D(g[r], w, minimum)], Rows(g))

MinOrMaxFilter(g, w, minimum) ==
    LET axis0 == Transpose(FilterRows(Transpose(g), w, minimum))
    IN  FilterRows(axis0, w, minimum)

GreyErosion(g, w) == MinOrMaxFilter(g, w, TRUE)
GreyDilation(g, w) == MinOrMaxFilter(g, w, FALSE)

\* Mutant: the dilation half of the opening left out.
GreyOpening_ErosionOnly(g, w) == GreyErosion(g, w)

\* Mutant: the erosion half of the opening left out.
GreyOpening_DilationOnly(g, w) == GreyDilation(g, w)

GreyOpening(g, w) == GreyDilation(GreyErosion(g, w), w)

(***************************************************************************)
(* The filter step (raster_utils.py 71-79): impute, open, restore.         *)
(***************************************************************************)
Impute(dsm, nd) ==
    LET fill == NanMedian(dsm)
    IN  AsRows([r \in 1..Rows(dsm) |-> [c \in 1..Cols(dsm) |->
                   IF REq(dsm[r][c], nd) THEN fill ELSE dsm[r][c]]],
               Rows(dsm), Cols(dsm))

RestoreNodata(opened, dsm, nd) ==
    AsRows([r \in 1..Rows(dsm) |-> [c \in 1..Cols(dsm) |->
               IF REq(dsm[r][c], nd) \/ IsNaN(dsm[r][c]) THEN nd ELSE opened[r][c]]],
           Rows(dsm), Cols(dsm))

FilterStep(dsm, w, nd) == RestoreNodata(GreyOpening(Impute(dsm, nd), w), dsm, nd)

(***************************************************************************)
(* rasterio.warp.reproject(dtm, dtm_original, resampling=bilinear)         *)
(* (raster_utils.py 99-108): the filtered grid, whose pixels are           *)
(* `factor` source pixels wide, interpolated at the centre of every pixel  *)
(* of the original grid.  No src_nodata is passed, so the nodata value is  *)
(* interpolated like any other; pixels beyond the footprint of the reduced *)
(* grid keep the 0 of np.zeros_like.                                       *)
(***************************************************************************)
Clamp(k, n) == Max2(1, Min2(n, k))

BilinearCell(dtm, factor, r, c) ==
    LET oh == Rows(dtm)
        ow == Cols(dtm)
        den == 2 * factor
        nr == 2 * r - 1 - factor
        nc == 2 * c - 1 - factor
        r0 == (nr \div den) + 1
        c0 == (nc \div den) + 1
        tr == nr % den
        tc == nc % den
        P(a, b) == dtm[Clamp(r0 + a, oh)][Clamp(c0 + b, ow)]
        top == RAdd(RScale((den - tr) * (den - tc), P(0, 0)),
                    RScale((den - tr) * tc, P(0, 1)))
        bot == RAdd(RScale(tr * (den - tc), P(1, 0)),
                    RScale(tr * tc, P(1, 1)))
    IN  IF r > factor * oh \/ c > factor * ow THEN Num(0)
        ELSE RDivInt(RAdd(top, bot), den * den)

Reproject(dtm, factor, height, width) ==
    AsRows([r \in 1..height |-> [c \in 1..width |-> BilinearCell(dtm, factor, r, c)]],
           height, width)

(***************************************************************************)
(* CHM Compositor (raster_utils.py 112-113).                               *)
(***************************************************************************)
ComposeCHM(dsm_original, dtm_original, original_nodata, nd) ==
    AsRows([r \in 1..Rows(dsm_original) |-> [c \in 1..Cols(dsm_original) |->
               IF REq(dsm_original[r][c], original_nodata)
                  \/ REq(dtm_original[r][c], nd)
               THEN original_nodata
               ELSE RSub(dsm_original[r][c], dtm_original[r][c])]],
           Rows(dsm_original), Cols(dsm_original))

(***************************************************************************)
(* str.replace (raster_utils.py 115): every non-overlapping occurrence of  *)
(* old, left to right.  Paths are sequences of characters.                 *)
(***************************************************************************)
RECURSIVE StrReplace(_, _, _)
StrReplace(str, old, new) ==
    IF Len(str) < Len(old) THEN str
    ELSE IF SubSeq(str, 1, Len(old)) = old
         THEN new \o StrReplace(SubSeq(str, Len(old) + 1, Len(str)), old, new)
         ELSE <<Head(str)>> \o StrReplace(Tail(str), old, new)

DotTif == <<".", "t", "i", "f">>
ChmTif == <<"_", "c", "h", "m", ".", "t", "i", "f">>
ChmPath(output_path) == StrReplace(output_path, DotTif, ChmTif)

(***************************************************************************)
(* State.                                                                  *)
(***************************************************************************)
VARIABLES
    src,                    \* the opened source dataset
    search_radius_meters,   \* argument
    max_pixels,             \* argument
    output_path,            \* argument
    pc,                     \* position in dsm_to_dtm_metric
    window_pixels,
    downsample,
    dsm,                    \* the grid handed to the filter
    dtm,
    chm,
    fs,                     \* rasters on disk, by path
    returned,               \* the returned (dtm_path, chm_path, metadata)
    raised                  \* the exception that ended the call

vars == <<src, search_radius_meters, max_pixels, output_path, pc, window_pixels,
          downsample, dsm, dtm, chm, fs, returned, raised>>

args == <<src, search_radius_meters, max_pixels, output_path>>

\* nodata = src.nodata if src.nodata is not None else -9999 (lines 38, 69)
Nodata == IF src.has_nodata THEN src.nodata ELSE Num(DefaultNodata)
TotalPixels == src.height * src.width

NoGrid == <<>>
NoFiles == [p \in {} |-> 0]
NoResult == [set |-> FALSE]

WriteFile(files, path, raster) ==
    [p \in (DOMAIN files) \cup {path} |-> IF p = path THEN raster ELSE files[p]]

Blank ==
    /\ pc = "start"
    /\ window_pixels = 0
    /\ downsample = 0
    /\ dsm = NoGrid
    /\ dtm = NoGrid
    /\ chm = NoGrid
    /\ fs = NoFiles
    /\ returned = NoResult
    /\ raised = "none"

(***************************************************************************)
(* Lines 30-46: open the source, size the window.  A zero resolution makes *)
(* the float division raise ZeroDivisionError.                             *)
(***************************************************************************)
ComputeWindow ==
    /\ pc = "start"
    /\ src.res # 0
    /\ window_pixels' = WindowPixels(search_radius_meters, src.res)
    /\ pc' = "sized"
    /\ UNCHANGED <<args, downsample, dsm, dtm, chm, fs, returned, raised>>

ComputeWindowRaises ==
    /\ pc = "start"
    /\ src.res = 0
    /\ raised' = "ZeroDivisionError"
    /\ pc' = "raised"
    /\ UNCHANGED <<args, window_pixels, downsample, dsm, dtm, chm, fs, returned>>

(***************************************************************************)
(* Lines 48-69: the memory guard and the read of the grid to filter.       *)
(***************************************************************************)
ReadFull ==
    /\ pc = "sized"
    /\ ~NeedsDownsample(TotalPixels, max_pixels)
    /\ downsample' = 1
    /\ dsm' = src.data
    /\ pc' = "read"
    /\ UNCHANGED <<args, window_pixels, dtm, chm, fs, returned, raised>>

ReadDownsampled ==
    /\ pc = "sized"
    /\ NeedsDownsample(TotalPixels, max_pixels)
    /\ max_pixels > 0
    /\ LET factor == DownsampleFactor(TotalPixels, max_pixels)
           out == OutShape(src.height, src.width, factor)
       IN  /\ out[1] >= 1
           /\ out[2] >= 1
           /\ downsample' = factor
           /\ dsm' = AverageRead(src.data, out[1], out[2], src.has_nodata, Nodata)
    /\ pc' = "read"
    /\ UNCHANGED <<args, window_pixels, dtm, chm, fs, returned, raised>>

\* total_pixels / 0 raises ZeroDivisionError; a reduced grid with no rows
\* or no columns cannot be read and written as a raster.
ReadRaises ==
    /\ pc = "sized"
    /\ NeedsDownsample(TotalPixels, max_pixels)
    /\ \/ /\ max_pixels = 0
          /\ raised' = "ZeroDivisionError"
          /\ downsample' = downsample
       \/ /\ max_pixels > 0
          /\ LET factor == DownsampleFactor(TotalPixels, max_pixels)
                 out == OutShape(src.height, src.width, factor)
             IN  /\ (out[1] = 0 \/ out[2] = 0)
                 /\ downsample' = factor
          /\ raised' = "RasterioIOError"
    /\ pc' = "raised"
    /\ UNCHANGED <<args, window_pixels, dsm, dtm, chm, fs, returned>>

(***************************************************************************)
(* Lines 71-79: the filter step.                                           *)
(***************************************************************************)
Filter ==
    /\ pc = "read"
    /\ dtm' = FilterStep(dsm, window_pixels, Nodata)
    /\ pc' = "filtered"
    /\ UNCHANGED <<args, window_pixels, downsample, dsm, chm, fs, returned, raised>>

\* out_meta (lines 82-89): src.meta with the filtered grid's dtype, height and
\* width and with `affine`.  The transform is kept as its pixel size.
DtmRaster(source, factor, nd, grid) ==
    [height |-> Rows(grid), width |-> Cols(grid),
     pixel_size |-> source.res * factor,
     crs |-> source.crs, nodata |-> nd, data |-> grid]

\* Mutant: the CHM written with out_meta instead of original_meta.
ChmRaster_OutMeta(source, factor, nd, grid) == DtmRaster(source, factor, nd, grid)

\* original_meta (lines 116-120): src.meta with the CHM's dtype and the nodata.
ChmRaster(source, factor, nd, grid) ==
    [height |-> source.height, width |-> source.width,
     pixel_size |-> source.res,
     crs |-> source.crs, nodata |-> nd, data |-> grid]

(***************************************************************************)
(* Lines 81-92: the DTM is written with the filtered grid's own height and *)
(* width and with `affine`, the source transform scaled by the factor.     *)
(***************************************************************************)
WriteDTM ==
    /\ pc = "filtered"
    /\ fs' = WriteFile(fs, output_path, DtmRaster(src, downsample, Nodata, dtm))
    /\ pc' = "dtm_written"
    /\ UNCHANGED <<args, window_pixels, downsample, dsm, dtm, chm, returned, raised>>

(***************************************************************************)
(* Lines 94-136: reconcile, compose the CHM, write it with the source's    *)
(* own metadata, return.                                                   *)
(***************************************************************************)
WriteCHM ==
    /\ pc = "dtm_written"
    /\ LET dtm_original == IF downsample > 1
                           THEN Reproject(dtm, downsample, src.height, src.width)
                           ELSE dtm
           chm_grid == ComposeCHM(src.data, dtm_original, Nodata, Nodata)
           chm_path == ChmPath(output_path)
       IN  /\ chm' = chm_grid
           /\ fs' = WriteFile(fs, chm_path, ChmRaster(src, downsample, Nodata, chm_grid))
           /\ returned' = [set |-> TRUE,
                           dtm_path |-> output_path,
                           chm_path |-> chm_path,
                           metadata |-> [resolution |-> src.res,
                                         window_pixels |-> window_pixels,
                                         window_meters |-> search_radius_meters,
                                         crs |-> src.crs,
                                         shape |-> Shape(dsm),
                                         original_shape |-> <<src.height, src.width>>,
                                         downsampled |-> downsample > 1,
                                         downsample_factor |-> downsample]]
    /\ pc' = "done"
    /\ UNCHANGED <<args, window_pixels, downsample, dsm, dtm, raised>>

Next ==
    \/ ComputeWindow
    \/ ComputeWindowRaises
    \/ ReadFull
    \/ ReadDownsampled
    \/ ReadRaises
    \/ Filter
    \/ WriteDTM
    \/ WriteCHM

(***************************************************************************)
(* Inputs.                                                                 *)
(***************************************************************************)
SrcCrs == "EPSG:32633"
OutTif == <<"o", "u", "t", ".", "t", "i", "f">>
OutBare == <<"o", "u", "t">>

Source(h, w, res, has_nodata, data) ==
    [height |-> h, width |-> w, res |-> res, crs |-> SrcCrs,
     has_nodata |-> has_nodata, nodata |-> Num(DefaultNodata), data |-> data]

Elevations == {Num(v) : v \in 0..MaxVal}
Cells == Elevations \cup {Num(DefaultNodata), NaN}
GridsOf(h, w, S) == [1..h -> [1..w -> S]]

\* Calls whose arguments sit on the edges of the parameter ranges.
InitEdge ==
    /\ src \in {Source(2, 2, res, TRUE, ConstGrid(2, 2, Num(1))) : res \in 0..1}
    /\ search_radius_meters = 1
    /\ max_pixels \in {0, 1, DefaultMaxPixels}
    /\ output_path = OutTif
    /\ Blank

\* Small grids of every content, unit resolution.
InitGrid ==
    /\ \E h \in 1..MaxH, w \in 1..MaxW :
         \E data \in GridsOf(h, w, Cells), has_nodata \in BOOLEAN :
            src = Source(h, w, 1, has_nodata, data)
    /\ search_radius_meters \in {1, 3}
    /\ max_pixels \in {2, DefaultMaxPixels}
    /\ output_path = OutTif
    /\ Blank

Init == InitGrid \/ InitEdge

Spec == Init /\ [][Next]_vars

\* Grids of at most MaxCells cells with at most MaxHoles nodata cells.
HoleCount(g) == Cardinality({k \in 1..Len(Flat(g)) : REq(Flat(g)[k], Num(DefaultNodata))})
OpenCells == {Num(v) : v \in 0..MaxOpenVal} \cup {Num(DefaultNodata)}

InitOpen ==
    /\ \E h \in 1..MaxCells, w \in 1..MaxCells :
         /\ h * w <= MaxCells
         /\ \E data \in GridsOf(h, w, OpenCells) :
               /\ HoleCount(data) <= MaxHoles
               /\ src = Source(h, w, 1, TRUE, data)
    /\ search_radius_meters \in {3, 5}
    /\ max_pixels = DefaultMaxPixels
    /\ output_path = OutTif
    /\ Blank

SpecOpen == (InitOpen \/ InitEdge) /\ [][Next]_vars

\* A flat background with one k x k block of higher values.
BumpGrid(h, w, b, k, r0, c0, pattern) ==
    AsRows([r \in 1..h |-> [c \in 1..w |->
               IF r \in r0..(r0 + k - 1) /\ c \in c0..(c0 + k - 1)
               THEN Num(b + 1 + ((r + c) % pattern))
               ELSE Num(b)]], h, w)

InitBump ==
    /\ \E h \in 1..MaxBumpDim, w \in 1..MaxBumpDim, k \in 1..MaxBump, b \in 0..1 :
         \E r0 \in 1..h, c0 \in 1..w, pattern \in 1..2 :
            /\ r0 + k - 1 <= h
            /\ c0 + k - 1 <= w
            /\ src = Source(h, w, 1, TRUE, BumpGrid(h, w, b, k, r0, c0, pattern))
    /\ search_radius_meters \in 1..(2 * MaxBump + 1)
    /\ max_pixels = DefaultMaxPixels
    /\ output_path = OutTif
    /\ Blank

SpecBump == (InitBump \/ InitEdge) /\ [][Next]_vars

\* Flat grids of every shape under every resolution, radius and budget.
InitSize ==
    /\ \E h \in 1..MaxDim, w \in 1..MaxDim, res \in 0..MaxRes :
         src = Source(h, w, res, TRUE, ConstGrid(h, w, Num(1)))
    /\ search_radius_meters \in 0..MaxRadius
    /\ max_pixels \in (0..MaxBudget) \cup {DefaultMaxPixels}
    /\ output_path \in {OutTif, OutBare}
    /\ Blank

SpecSize == (InitSize \/ InitEdge) /\ [][Next]_vars

(***************************************************************************)
(* Vocabulary of the properties.                                           *)
(***************************************************************************)
IsNodata(v) == REq(v, Nodata)
IsMissing(v) == IsNodata(v) \/ IsNaN(v)
IsValid(v) == ~IsMissing(v)
Pixels == (1..src.height) \X (1..src.width)
SrcAt(p) == src.data[p[1]][p[2]]
NoMissing(g) == \A r \in 1..Rows(g), c \in 1..Cols(g) : IsValid(g[r][c])
AllNodata == \A p \in Pixels : IsNodata(SrcAt(p))
FilterRan == pc \in {"filtered", "dtm_written", "done"}
InvalidArgs == search_radius_meters <= 0 \/ src.res <= 0 \/ max_pixels <= 0

(***************************************************************************)
(* C1.  For resolution > 0 and radius > 0 the window is odd, at least 1,   *)
(* at least ceil(radius / resolution), and is that ceiling when it is odd  *)
(* and the ceiling plus one when it is even.  The ceiling is named by its  *)
(* defining inequalities (c - 1) * res < radius <= c * res.                *)
(***************************************************************************)
C1_WindowOddAndCovers ==
    (pc # "start" /\ src.res > 0 /\ search_radius_meters > 0) =>
        /\ window_pixels % 2 = 1
        /\ window_pixels >= 1
        /\ window_pixels * src.res >= search_radius_meters
        /\ \E c \in 1..search_radius_meters :
              /\ (c - 1) * src.res < search_radius_meters
              /\ search_radius_meters <= c * src.res
              /\ window_pixels = IF c % 2 = 1 THEN c ELSE c + 1

\* C1 witness: a window sized from an even ceiling, hence one above it.
C1_Witness ==
    /\ pc = "sized"
    /\ src.res > 1
    /\ search_radius_meters > src.res
    /\ window_pixels % 2 = 1
    /\ (window_pixels - 1) * src.res >= search_radius_meters
    /\ (window_pixels - 2) * src.res < search_radius_meters

(***************************************************************************)
(* C2.  Every pixel that is nodata or NaN in the source holds the nodata   *)
(* value at the corresponding pixel of the written DTM and of the written  *)
(* CHM, with and without downsampling.  The DTM pixel that corresponds to  *)
(* source pixel (r, c) is the one whose footprint holds it.                *)
(***************************************************************************)
C2_NodataPropagates ==
    /\ pc = "dtm_written" =>
          \A p \in Pixels :
             LET rr == CeilDiv(p[1], downsample)
                 cc == CeilDiv(p[2], downsample)
                 file == fs[output_path]
             IN  (IsMissing(SrcAt(p)) /\ rr <= file.height /\ cc <= file.width)
                    => IsNodata(file.data[rr][cc])
    /\ pc = "done" =>
          \A p \in Pixels :
             IsMissing(SrcAt(p)) => IsNodata(fs[returned.chm_path].data[p[1]][p[2]])

(***************************************************************************)
(* C3.  Without downsampling the DTM is at most the DSM at every pixel     *)
(* that is valid in the source, and the CHM is non-negative wherever it is *)
(* not nodata.                                                             *)
(***************************************************************************)
C3_OpeningBelowSurface ==
    (pc = "done" /\ downsample = 1) =>
        \A p \in Pixels :
           IsValid(SrcAt(p)) =>
              /\ RLe(dtm[p[1]][p[2]], SrcAt(p))
              /\ ~IsNodata(chm[p[1]][p[2]]) => RGe(chm[p[1]][p[2]], Num(0))

(***************************************************************************)
(* C4.  Without downsampling and without nodata, on a grid flat at b but   *)
(* for one k x k block of higher values, a window wider than k leaves a    *)
(* DTM equal to b at every pixel.                                          *)
(***************************************************************************)
IsBump(data, b, k, r0, c0) ==
    /\ r0 + k - 1 <= Rows(data)
    /\ c0 + k - 1 <= Cols(data)
    /\ k * k < Rows(data) * Cols(data)
    /\ \A r \in 1..Rows(data), c \in 1..Cols(data) :
          IF r \in r0..(r0 + k - 1) /\ c \in c0..(c0 + k - 1)
          THEN RLt(Num(b), data[r][c])
          ELSE data[r][c] = Num(b)

TouchesRowEdge(k, r0) == r0 = 1 \/ r0 + k - 1 = src.height
TouchesColEdge(k, c0) == c0 = 1 \/ c0 + k - 1 = src.width

C4_BumpRemoved ==
    (pc = "filtered" /\ downsample = 1) =>
        \A k \in 1..MaxBump, b \in 0..1, r0 \in 1..src.height, c0 \in 1..src.width :
           (IsBump(src.data, b, k, r0, c0) /\ window_pixels > k)
              => dtm = ConstGrid(src.height, src.width, Num(b))

(***************************************************************************)
(* C4 amended.  The same, for a block that is clear of the grid edge along *)
(* at least one axis (reflection about an edge doubles the run of a block  *)
(* that touches it; a block in a corner is doubled along both axes).       *)
(***************************************************************************)
C4_BumpOffCornerRemoved ==
    (pc = "filtered" /\ downsample = 1) =>
        \A k \in 1..MaxBump, b \in 0..1, r0 \in 1..src.height, c0 \in 1..src.width :
           (/\ IsBump(src.data, b, k, r0, c0)
            /\ window_pixels > k
            /\ ~(TouchesRowEdge(k, r0) /\ TouchesColEdge(k, c0)))
              => dtm = ConstGrid(src.height, src.width, Num(b))

\* C4 witness: a 2 x 2 block on one edge, off the corner, removed by a window of 3.
C4_Witness ==
    /\ pc = "filtered"
    /\ downsample = 1
    /\ window_pixels = 3
    /\ \E b \in 0..1, r0 \in 1..src.height, c0 \in 1..src.width :
          /\ IsBump(src.data, b, 2, r0, c0)
          /\ TouchesRowEdge(2, r0)
          /\ ~TouchesColEdge(2, c0)
          /\ dtm = ConstGrid(src.height, src.width, Num(b))

(***************************************************************************)
(* C5.  The filter step is idempotent on every grid, grids with nodata     *)
(* cells included: filtering the filtered grid again with the same window  *)
(* returns it unchanged.                                                   *)
(***************************************************************************)
C5_FilterIdempotent ==
    pc = "filtered" => FilterStep(dtm, window_pixels, Nodata) = dtm

(***************************************************************************)
(* C5 amended.  The filter step is idempotent on every grid that has no    *)
(* nodata and no NaN cell.                                                 *)
(***************************************************************************)
C5_FilterIdempotentNoHoles ==
    (pc = "filtered" /\ NoMissing(dsm)) => FilterStep(dtm, window_pixels, Nodata) = dtm

\* C5 witness: a grid without holes that the opening did change.
C5_Witness ==
    /\ pc = "filtered"
    /\ NoMissing(dsm)
    /\ window_pixels >= 3
    /\ dtm # dsm
    /\ FilterStep(dtm, window_pixels, Nodata) = dtm

(***************************************************************************)
(* C6.  The written DTM and the written CHM both carry the source's height *)
(* and width, its transform and its CRS, downsampled or not.               *)
(***************************************************************************)
HasSourceGeometry(file) ==
    /\ file.height = src.height
    /\ file.width = src.width
    /\ file.pixel_size = src.res
    /\ file.crs = src.crs

FactorAsClaimed ==
    IF TotalPixels <= max_pixels THEN downsample = 1
    ELSE /\ downsample >= 2
         /\ (downsample - 1) * (downsample - 1) * max_pixels < TotalPixels
         /\ TotalPixels <= downsample * downsample * max_pixels

C7_FactorShapeAndMetadata ==
    /\ DownsampleFactor(5000 * 5000, 1000000) = 5
    /\ OutShape(5000, 5000, 5) = <<1000, 1000>>
    /\ (max_pixels >= 1 /\ (FilterRan \/ pc = "read")) =>
          /\ FactorAsClaimed
          /\ Shape(dsm) = <<src.height \div downsample, src.width \div downsample>>
    /\ (max_pixels >= 1 /\ pc = "done") =>
          /\ returned.metadata.downsampled = (downsample > 1)
          /\ returned.metadata.downsample_factor = downsample
          /\ returned.metadata.shape = Shape(dsm)
          /\ returned.metadata.original_shape = <<src.height, src.width>>

\* C7 witness: a finished run that downsampled a grid its factor does not divide.
C7_Witness ==
    /\ pc = "done"
    /\ max_pixels >= 1
    /\ returned.metadata.downsampled
    /\ returned.metadata.downsample_factor >= 2
    /\ src.height % downsample # 0
    /\ returned.metadata.shape # returned.metadata.original_shape

(***************************************************************************)
(* C8.  Without downsampling the DTM and the CHM hold the nodata value at  *)
(* the source's nodata cells and at no pixel that is valid in the source,  *)
(* whatever the share of nodata cells.                                     *)
(***************************************************************************)
C8_NodataExactlyAtSourceNodata ==
    (pc = "done" /\ downsample = 1) =>
        \A p \in Pixels :
           /\ IsNodata(SrcAt(p)) =>
                 (IsNodata(dtm[p[1]][p[2]]) /\ IsNodata(chm[p[1]][p[2]]))
           /\ IsValid(SrcAt(p)) =>
                 (~IsNodata(dtm[p[1]][p[2]]) /\ ~IsNodata(chm[p[1]][p[2]]))

(***************************************************************************)
(* C9.  A call with a non-positive radius, resolution or budget is         *)
(* rejected: the filter never runs and no DTM or CHM is written.           *)
(***************************************************************************)
C9_InvalidParameterRejected ==
    InvalidArgs => (~FilterRan /\ fs = NoFiles)

(***************************************************************************)
(* C10.  A source whose every pixel is nodata is rejected: nothing is      *)
(* imputed, filtered or written.                                           *)
(***************************************************************************)
C10_AllNodataRejected ==
    AllNodata => (~FilterRan /\ fs = NoFiles)

(***************************************************************************)
(* C11.  For every output_path the returned chm_path differs from the      *)
(* returned dtm_path, also when the path holds no '.tif', and after the    *)
(* run the DTM file still holds the DTM grid: the CHM write does not       *)
(* overwrite it.                                                           *)
(***************************************************************************)
C11_ChmPathDistinctFromDtmPath ==
    pc = "done" =>
        /\ returned.chm_path # returned.dtm_path
        /\ returned.dtm_path \in DOMAIN fs
        /\ fs[returned.dtm_path] = DtmRaster(src, downsample, Nodata, dtm)

(***************************************************************************)
(* C12.  In the array handed to the opening every nodata cell and every    *)
(* NaN cell of the grid being filtered holds the median of the grid's      *)
(* valid cells only, and no cell is NaN.  Grids with no valid cell have no *)
(* such median and are left out.                                           *)
(***************************************************************************)
ValidMedian(g) ==
    LET vals == SelectSeq(Flat(g), LAMBDA v : IsValid(v))
        n == Len(vals)
    IN  IF n % 2 = 1 THEN KthSmallest(vals, (n + 1) \div 2)
        ELSE RDivInt(RAdd(KthSmallest(vals, n \div 2),
                          KthSmallest(vals, (n \div 2) + 1)), 2)

HasValidCell(g) == \E r \in 1..Rows(g), c \in 1..Cols(g) : IsValid(g[r][c])

C12_MissingCellsGetValidMedian ==
    (FilterRan /\ HasValidCell(dsm)) =>
        LET dsm_temp == Impute(dsm, Nodata)
        IN  \A r \in 1..Rows(dsm), c \in 1..Cols(dsm) :
               /\ ~IsNaN(dsm_temp[r][c])
               /\ IsMissing(dsm[r][c]) => REq(dsm_temp[r][c], ValidMedian(dsm))
               /\ IsValid(dsm[r][c]) => dsm_temp[r][c] = dsm[r][c]

(***************************************************************************)
(* C13.  The ground size of the structuring element applied by the filter, *)
(* window_pixels times the pixel size of the grid being filtered, is the   *)
(* same for every max_pixels: a run that downsamples opens with the ground *)
(* window of the run that does not, WindowPixels(radius, res) * res.       *)
(***************************************************************************)
AppliedWindowGroundSize == window_pixels * (src.res * downsample)

C13_GroundWindowIndependentOfBudget ==
    FilterRan =>
        AppliedWindowGroundSize = WindowPixels(search_radius_meters, src.res) * src.res

(***************************************************************************)
(* C14.  Whenever downsampling occurs, with height, width and max_pixels   *)
(* at least 1, the reduced grid is non-empty: height // factor >= 1 and    *)
(* width // factor >= 1, and the read hands such a grid to the filter.     *)
(***************************************************************************)
C14_ReducedGridNonEmpty ==
    (pc # "start" /\ src.res # 0 /\ max_pixels >= 1
        /\ NeedsDownsample(TotalPixels, max_pixels)) =>
        LET out == OutShape(src.height, src.width,
                            DownsampleFactor(TotalPixels, max_pixels))
        IN  /\ out[1] >= 1
            /\ out[2] >= 1
            /\ (pc # "sized" => (raised = "none" /\ Shape(dsm) = out))

====
